---- MODULE Spec2Model ----
(***************************************************************************)
(* Model of muselsl/stream.py: the stream() session controller with its    *)
(* supervisor loop, address resolution through find_muse(), and the        *)
(* sample router fixed_push().                                             *)
(*                                                                         *)
(* Time is counted in seconds.  The supervisor's own statements take no    *)
(* time; the clock advances only while the supervisor is inside            *)
(* backends.sleep(1).  The session (class Muse), the LSL outlets and the   *)
(* discovery back ends are collaborators: every call into them has a       *)
(* nondeterministic outcome (returns, raises an error, or is cut short by  *)
(* a KeyboardInterrupt).                                                   *)
(***************************************************************************)
EXTENDS Integers, Sequences, FiniteSets, TLC

VARIABLES
    \* ---- stream(): the request (arguments of the call)
    eeg_disabled, ppg_enabled, acc_enabled, gyro_enabled,
    backend, address, name,
    \* ---- stream(): control state
    discovered,     \* the list list_muses() returned to find_muse()
    pc,             \* position of the supervisor thread inside stream()
    exc,            \* exception pending / propagated out of stream()
    outlets,        \* keys of the outlets dict (opened StreamOutlets)
    closed,         \* outlets on which a close has been performed
    callbacks,      \* per modality, the outlet its callback is bound to, or None
    calls,          \* collaborator calls made by stream(), in order
    output,         \* lines printed, in order
    streaming,      \* the session's data flow is running
    connected,      \* the session is open (connect succeeded, not yet disconnected)
    pushes,         \* router invocations made by the session
    \* ---- clock and liveness data read by the supervisor loop
    now, start_time, hasLast, last_timestamp,
    \* ---- fixed_push(): one router invocation
    fp_pc, fp_kind, fp_data, fp_ts, fp_fail, fp_i, fp_ncall, fp_log, fp_escaped,
    \* ---- list_muses(): one discovery call
    lm_requested,   \* the backend argument as passed
    lm_backend,     \* the backend variable (reassigned at stream.py:37)
    lm_tool,        \* which('bluetoothctl') is not None
    lm_pc,          \* position inside list_muses()
    lm_log,         \* calls made by list_muses(), in order
    lm_err,         \* the exception an adapter call raised, if any
    lm_started,     \* adapter.start() has returned
    lm_stopped,     \* adapter.stop() has returned
    lm_devices,     \* what adapter.scan() returned
    lm_muses,       \* the list returned
    lm_ret          \* how list_muses() ended

streamVars == <<discovered, eeg_disabled, ppg_enabled, acc_enabled, gyro_enabled,
                backend, address, name, pc, exc, outlets, closed, callbacks,
                calls, output, streaming, connected, pushes,
                now, start_time, hasLast, last_timestamp>>

pushVars == <<fp_pc, fp_kind, fp_data, fp_ts, fp_fail, fp_i, fp_ncall,
              fp_log, fp_escaped>>

listVars == <<lm_requested, lm_backend, lm_tool, lm_pc, lm_log, lm_err,
              lm_started, lm_stopped, lm_devices, lm_muses, lm_ret>>

vars == <<streamVars, pushVars, listVars>>

----------------------------------------------------------------------------
(* Bounds *)

\* the session invokes the router at most MaxPush times in one run
MaxPush == 2
\* a session that delivers at all delivers its first batch within
\* MaxFirstSample seconds of the loop's start
MaxFirstSample == 2
\* the clock is not advanced past MaxTime
MaxTime == 303

(* Program constants *)

\* constants.AUTO_DISCONNECT_DELAY, imported at stream.py:14, seconds
AUTO_DISCONNECT_DELAY == 3
\* "Max 5 minutes", stream.py:332
MAX_STREAMING_TIME == 300
\* backends.sleep(1), stream.py:336
SLEEP_SECONDS == 1

None == "None"

Modalities == {"eeg", "ppg", "acc", "gyro"}

Backends == {"auto", "bluemuse"}

MuseA == [name |-> "Muse-A", address |-> "AA"]
MuseB == [name |-> "Muse-B", address |-> "BB"]
NoMuse == [name |-> None, address |-> None]

\* what list_muses() can return to find_muse()
Discoverable == {<< >>, <<MuseB>>, <<MuseB, MuseA>>}

RequestNames == {None, "Muse-A"}
RequestAddresses == {None, "AA"}

\* outcome of a call into a collaborator
Outcomes == {"ok", "error", "interrupt"}

----------------------------------------------------------------------------
(* find_muse *)

\* find_muse taking the first device when no device has the name asked for
find_muse_first(nm, muses) ==
    IF nm # None /\ \E i \in 1..Len(muses) : muses[i].name = nm
    THEN muses[CHOOSE i \in 1..Len(muses) :
                 /\ muses[i].name = nm
                 /\ \A j \in 1..(i-1) : muses[j].name # nm]
    ELSE IF Len(muses) > 0 THEN muses[1] ELSE NoMuse

find_muse(nm, muses) ==
    IF nm # None
    THEN IF \E i \in 1..Len(muses) : muses[i].name = nm
         THEN muses[CHOOSE i \in 1..Len(muses) :
                      /\ muses[i].name = nm
                      /\ \A j \in 1..(i-1) : muses[j].name # nm]
         ELSE NoMuse
    ELSE IF Len(muses) > 0 THEN muses[1] ELSE NoMuse

\* _print_muse_list: what discovery prints
PrintMuseList(muses) ==
    IF Len(muses) = 0
    THEN <<"No Muses found.">>
    ELSE [i \in 1..Len(muses) |-> "Found device"]

----------------------------------------------------------------------------
(* stream() *)

\* NoDataSource with the test of gyro_enabled inverted
NoDataSource_gyro ==
    eeg_disabled /\ ~ppg_enabled /\ ~acc_enabled /\ gyro_enabled

\* stream.py:224
NoDataSource ==
    eeg_disabled /\ ~ppg_enabled /\ ~acc_enabled /\ ~gyro_enabled

\* Enabled opening a PPG outlet whether or not ppg_enabled is set
Enabled_ppg ==
    (IF ~eeg_disabled THEN {"eeg"} ELSE {}) \cup {"ppg"}
    \cup (IF acc_enabled THEN {"acc"} ELSE {})
    \cup (IF gyro_enabled THEN {"gyro"} ELSE {})

\* stream.py:238-294: the keys of the outlets dict once the outlets are opened
Enabled ==
    (IF ~eeg_disabled THEN {"eeg"} ELSE {})
    \cup (IF ppg_enabled THEN {"ppg"} ELSE {})
    \cup (IF acc_enabled THEN {"acc"} ELSE {})
    \cup (IF gyro_enabled THEN {"gyro"} ELSE {})

\* no callback registered: callback_eeg = ... = callback_gyro = None
NoCallbacks == [m \in Modalities |-> None]

\* stream.py:297-300: push_eeg, push_ppg, push_acc, push_gyro, each the
\* router bound to one outlet of the dict, or None
Callbacks ==
    [m \in Modalities |->
        IF m = "eeg" THEN (IF ~eeg_disabled THEN "eeg" ELSE None)
        ELSE IF m = "ppg" THEN (IF ppg_enabled THEN "ppg" ELSE None)
        ELSE IF m = "acc" THEN (IF acc_enabled THEN "acc" ELSE None)
        ELSE (IF gyro_enabled THEN "gyro" ELSE None)]

Finish(e) == /\ pc' = "done"
             /\ exc' = e

InitStream ==
    /\ eeg_disabled \in BOOLEAN
    /\ ppg_enabled \in BOOLEAN
    /\ acc_enabled \in BOOLEAN
    /\ gyro_enabled \in BOOLEAN
    /\ backend \in Backends
    /\ address \in RequestAddresses
    /\ name \in RequestNames
    /\ discovered = << >>
    /\ pc = "entry"
    /\ exc = "none"
    /\ outlets = {}
    /\ closed = {}
    /\ callbacks = NoCallbacks
    /\ calls = << >>
    /\ output = << >>
    /\ streaming = FALSE
    /\ connected = FALSE
    /\ pushes = 0
    /\ now = 0
    /\ start_time = 0
    /\ hasLast = FALSE
    /\ last_timestamp = 0

IdlePush ==
    /\ fp_pc = "idle"
    /\ fp_kind = "matrix"
    /\ fp_data = << >>
    /\ fp_ts = << >>
    /\ fp_fail = {}
    /\ fp_i = 0
    /\ fp_ncall = 0
    /\ fp_log = << >>
    /\ fp_escaped = FALSE

IdleList ==
    /\ lm_requested = "auto"
    /\ lm_backend = "auto"
    /\ lm_tool = FALSE
    /\ lm_pc = "idle"
    /\ lm_log = << >>
    /\ lm_err = "none"
    /\ lm_started = FALSE
    /\ lm_stopped = FALSE
    /\ lm_devices = << >>
    /\ lm_muses = << >>
    /\ lm_ret = "pending"

Init == InitStream /\ IdlePush /\ IdleList

\* stream.py:224-226
RejectNoData ==
    /\ pc = "entry"
    /\ NoDataSource
    /\ output' = Append(output, "Stream initiation failed")
    /\ Finish("none")
    /\ UNCHANGED <<pushVars, listVars>>
    /\ UNCHANGED <<discovered, eeg_disabled, ppg_enabled, acc_enabled, gyro_enabled,
                   backend, address, name, outlets, closed, callbacks, calls,
                   streaming, connected, pushes, now, start_time, hasLast,
                   last_timestamp>>

\* stream.py:229-230, an address was supplied
AddressGiven ==
    /\ pc = "entry"
    /\ ~NoDataSource
    /\ backend # "bluemuse"
    /\ address # None
    /\ pc' = "open"
    /\ UNCHANGED <<pushVars, listVars>>
    /\ UNCHANGED <<discovered, eeg_disabled, ppg_enabled, acc_enabled, gyro_enabled,
                   backend, address, name, exc, outlets, closed, callbacks,
                   calls, output, streaming, connected, pushes, now,
                   start_time, hasLast, last_timestamp>>

\* stream.py:230-236, discovery returns a list
Resolve ==
    /\ pc = "entry"
    /\ ~NoDataSource
    /\ backend # "bluemuse"
    /\ address = None
    /\ \E muses \in Discoverable :
         LET found_muse == find_muse(name, muses) IN
         /\ discovered' = muses
         /\ calls' = Append(calls, "find_muse")
         /\ output' = output \o PrintMuseList(muses)
         /\ IF found_muse = NoMuse
            THEN /\ Finish("none")
                 /\ UNCHANGED <<address, name>>
            ELSE /\ address' = found_muse.address
                 /\ name' = found_muse.name
                 /\ pc' = "open"
                 /\ UNCHANGED exc
    /\ UNCHANGED <<pushVars, listVars>>
    /\ UNCHANGED <<eeg_disabled, ppg_enabled, acc_enabled, gyro_enabled,
                   backend, outlets, closed, callbacks, streaming, connected,
                   pushes, now, start_time, hasLast, last_timestamp>>

\* stream.py:231, list_muses raises (stream.py:62) and the error leaves stream()
ResolveRaises ==
    /\ pc = "entry"
    /\ ~NoDataSource
    /\ backend # "bluemuse"
    /\ address = None
    /\ calls' = Append(calls, "find_muse")
    /\ \E e \in {"error", "interrupt"} : Finish(e)
    /\ UNCHANGED <<pushVars, listVars>>
    /\ UNCHANGED <<discovered, eeg_disabled, ppg_enabled, acc_enabled, gyro_enabled,
                   backend, address, name, outlets, closed, callbacks, output,
                   streaming, connected, pushes, now, start_time, hasLast,
                   last_timestamp>>

\* stream.py:238-294
OpenOutlets ==
    /\ pc = "open"
    /\ outlets' = Enabled
    /\ pc' = "construct"
    /\ UNCHANGED <<pushVars, listVars>>
    /\ UNCHANGED <<discovered, eeg_disabled, ppg_enabled, acc_enabled, gyro_enabled,
                   backend, address, name, exc, closed, callbacks, calls,
                   output, streaming, connected, pushes, now, start_time,
                   hasLast, last_timestamp>>

\* stream.py:297-305
Construct ==
    /\ pc = "construct"
    /\ callbacks' = Callbacks
    /\ calls' = Append(calls, "Muse")
    /\ pc' = "connect"
    /\ UNCHANGED <<pushVars, listVars>>
    /\ UNCHANGED <<discovered, eeg_disabled, ppg_enabled, acc_enabled, gyro_enabled,
                   backend, address, name, exc, outlets, closed, output,
                   streaming, connected, pushes, now, start_time, hasLast,
                   last_timestamp>>

\* EntersStreaming ignoring connect()'s result
EntersStreaming_always(didConnect) == TRUE

\* stream.py:309, the branch taken on connect()'s result
EntersStreaming(didConnect) == didConnect

\* stream.py:307-309
Connect ==
    /\ pc = "connect"
    /\ calls' = Append(calls, "connect")
    /\ \/ \E didConnect \in BOOLEAN :
            /\ connected' = didConnect
            /\ pc' = IF EntersStreaming(didConnect) THEN "start" ELSE "failed"
            /\ UNCHANGED exc
       \/ /\ \E e \in {"error", "interrupt"} : Finish(e)
          /\ UNCHANGED connected
    /\ UNCHANGED <<pushVars, listVars>>
    /\ UNCHANGED <<discovered, eeg_disabled, ppg_enabled, acc_enabled, gyro_enabled,
                   backend, address, name, outlets, closed, callbacks, output,
                   streaming, pushes, now, start_time, hasLast,
                   last_timestamp>>

\* stream.py:345-346
ReportFailed ==
    /\ pc = "failed"
    /\ output' = Append(output, "Failed to connect.")
    /\ Finish("none")
    /\ UNCHANGED <<pushVars, listVars>>
    /\ UNCHANGED <<discovered, eeg_disabled, ppg_enabled, acc_enabled, gyro_enabled,
                   backend, address, name, outlets, closed, callbacks, calls,
                   streaming, connected, pushes, now, start_time, hasLast,
                   last_timestamp>>

\* stream.py:310-311, outside the try block
Start ==
    /\ pc = "start"
    /\ output' = Append(output, "Connected.")
    /\ calls' = Append(calls, "start")
    /\ \E r \in Outcomes :
         IF r = "ok"
         THEN /\ streaming' = TRUE
              /\ pc' = "announce"
              /\ UNCHANGED exc
         ELSE /\ Finish(r)
              /\ UNCHANGED streaming
    /\ UNCHANGED <<pushVars, listVars>>
    /\ UNCHANGED <<discovered, eeg_disabled, ppg_enabled, acc_enabled, gyro_enabled,
                   backend, address, name, outlets, closed, callbacks,
                   connected, pushes, now, start_time, hasLast,
                   last_timestamp>>

\* stream.py:313-323, the try block is entered and start_time is read
EnterLoop ==
    /\ pc = "announce"
    /\ output' = Append(output, "Streaming...")
    /\ start_time' = now
    /\ pc' = "loop"
    /\ UNCHANGED <<pushVars, listVars>>
    /\ UNCHANGED <<discovered, eeg_disabled, ppg_enabled, acc_enabled, gyro_enabled,
                   backend, address, name, exc, outlets, closed, callbacks,
                   calls, streaming, connected, pushes, now, hasLast,
                   last_timestamp>>

\* Stale with >= in place of >
Stale_ge(current_time) ==
    hasLast /\ current_time - last_timestamp >= AUTO_DISCONNECT_DELAY

\* stream.py:328-329
Stale(current_time) ==
    hasLast /\ current_time - last_timestamp > AUTO_DISCONNECT_DELAY

\* Silent with the 300 s test made whether or not a sample was ever seen
Silent_always(current_time) ==
    current_time - start_time > MAX_STREAMING_TIME

\* Silent with >= in place of >
Silent_ge(current_time) ==
    ~hasLast /\ current_time - start_time >= MAX_STREAMING_TIME

\* stream.py:328, 332
Silent(current_time) ==
    ~hasLast /\ current_time - start_time > MAX_STREAMING_TIME

loopUnchanged == <<pushVars, listVars, discovered, eeg_disabled, ppg_enabled, acc_enabled, gyro_enabled,
                   backend, address, name, outlets, closed, callbacks, calls,
                   streaming, connected, pushes, start_time, hasLast,
                   last_timestamp>>

\* stream.py:325, 328-331
LoopStale ==
    /\ pc = "loop"
    /\ Stale(now)
    /\ output' = Append(output, "Auto-disconnect")
    /\ pc' = "stop"
    /\ UNCHANGED <<exc, now>>
    /\ UNCHANGED loopUnchanged

\* stream.py:325, 332-334
LoopSilent ==
    /\ pc = "loop"
    /\ ~Stale(now)
    /\ Silent(now)
    /\ output' = Append(output, "Max streaming time reached")
    /\ pc' = "stop"
    /\ UNCHANGED <<exc, now>>
    /\ UNCHANGED loopUnchanged

\* stream.py:325-336, neither stop condition holds: sleep and repeat
LoopSleep ==
    /\ pc = "loop"
    /\ ~Stale(now)
    /\ ~Silent(now)
    /\ now + SLEEP_SECONDS <= MaxTime
    /\ now' = now + SLEEP_SECONDS
    /\ UNCHANGED <<pc, exc, output>>
    /\ UNCHANGED loopUnchanged

\* stream.py:338-339, KeyboardInterrupt inside the try block
LoopInterrupt ==
    /\ pc = "loop"
    /\ output' = Append(output, "Interrupted by user")
    /\ pc' = "stop"
    /\ UNCHANGED <<exc, now>>
    /\ UNCHANGED loopUnchanged

\* stream.py:322-336, any other exception inside the try block
LoopError ==
    /\ pc = "loop"
    /\ exc' = "error"
    /\ pc' = "stop"
    /\ UNCHANGED <<output, now>>
    /\ UNCHANGED loopUnchanged

\* stream.py:340-341
Stop ==
    /\ pc = "stop"
    /\ calls' = Append(calls, "stop")
    /\ \E r \in Outcomes :
         IF r = "ok"
         THEN /\ streaming' = FALSE
              /\ pc' = "disconnect"
              /\ UNCHANGED exc
         ELSE /\ Finish(r)
              /\ UNCHANGED streaming
    /\ UNCHANGED <<pushVars, listVars>>
    /\ UNCHANGED <<discovered, eeg_disabled, ppg_enabled, acc_enabled, gyro_enabled,
                   backend, address, name, outlets, closed, callbacks, output,
                   connected, pushes, now, start_time, hasLast,
                   last_timestamp>>

\* stream.py:342
Disconnect ==
    /\ pc = "disconnect"
    /\ calls' = Append(calls, "disconnect")
    /\ connected' = FALSE
    /\ \E r \in Outcomes :
         IF r = "ok"
         THEN IF exc = "none"
              THEN pc' = "report" /\ UNCHANGED exc
              ELSE Finish(exc)
         ELSE Finish(r)
    /\ UNCHANGED <<pushVars, listVars>>
    /\ UNCHANGED <<discovered, eeg_disabled, ppg_enabled, acc_enabled, gyro_enabled,
                   backend, address, name, outlets, closed, callbacks, output,
                   streaming, pushes, now, start_time, hasLast,
                   last_timestamp>>

\* stream.py:344
ReportDisconnected ==
    /\ pc = "report"
    /\ output' = Append(output, "Disconnected.")
    /\ Finish("none")
    /\ UNCHANGED <<pushVars, listVars>>
    /\ UNCHANGED <<discovered, eeg_disabled, ppg_enabled, acc_enabled, gyro_enabled,
                   backend, address, name, outlets, closed, callbacks, calls,
                   streaming, connected, pushes, now, start_time, hasLast,
                   last_timestamp>>

\* stream.py:349-366, the BlueMuse branch
BlueMuse ==
    /\ pc = "entry"
    /\ ~NoDataSource
    /\ backend = "bluemuse"
    /\ calls' = calls \o <<"Muse", "connect", "start">>
    /\ output' = Append(output, "Targeting")
    /\ Finish("none")
    /\ UNCHANGED <<pushVars, listVars>>
    /\ UNCHANGED <<discovered, eeg_disabled, ppg_enabled, acc_enabled, gyro_enabled,
                   backend, address, name, outlets, closed, callbacks,
                   streaming, connected, pushes, now, start_time, hasLast,
                   last_timestamp>>

\* Deliver by a session that keeps firing callbacks whatever its state
Deliver_always(m) ==
    /\ callbacks[m] # None
    /\ callbacks[m] \in outlets
    /\ pushes' = pushes + 1
    /\ hasLast' = TRUE
    /\ last_timestamp' = now
    /\ UNCHANGED <<pushVars, listVars>>
    /\ UNCHANGED <<discovered, eeg_disabled, ppg_enabled, acc_enabled,
                   gyro_enabled, backend, address, name, pc, exc, outlets,
                   closed, callbacks, calls, output, streaming, connected,
                   now, start_time>>

\* The session's I/O thread delivers a batch to a registered callback
\* (partial(fixed_push, outlet=outlets[m]), stream.py:297-300) and records
\* the time of the sample.
Deliver(m) ==
    /\ streaming
    /\ connected
    /\ callbacks[m] # None
    /\ callbacks[m] \in outlets
    /\ pushes' = pushes + 1
    /\ hasLast' = TRUE
    /\ last_timestamp' = now
    /\ UNCHANGED <<pushVars, listVars>>
    /\ UNCHANGED <<discovered, eeg_disabled, ppg_enabled, acc_enabled, gyro_enabled,
                   backend, address, name, pc, exc, outlets, closed,
                   callbacks, calls, output, streaming, connected, now,
                   start_time>>

Sample ==
    /\ pushes < MaxPush
    /\ hasLast \/ now - start_time <= MaxFirstSample
    /\ \E m \in Modalities : Deliver(m)

Next ==
    \/ RejectNoData
    \/ AddressGiven
    \/ Resolve
    \/ ResolveRaises
    \/ OpenOutlets
    \/ Construct
    \/ Connect
    \/ ReportFailed
    \/ Start
    \/ EnterLoop
    \/ LoopStale
    \/ LoopSilent
    \/ LoopSleep
    \/ LoopInterrupt
    \/ LoopError
    \/ Stop
    \/ Disconnect
    \/ ReportDisconnected
    \/ BlueMuse
    \/ Sample

Spec == Init /\ [][Next]_vars

----------------------------------------------------------------------------
(* The supervisor loop on its own, for sessions that stream for a long time *)

\* the session invokes the router at most MaxLoopPush times
MaxLoopPush == 102

\* stream(address = "AA") with the default modalities, at the point where
\* the loop is entered (stream.py:323); a first batch may already have come
InitLoop ==
    /\ eeg_disabled = FALSE
    /\ ppg_enabled = FALSE
    /\ acc_enabled = FALSE
    /\ gyro_enabled = FALSE
    /\ backend = "auto"
    /\ address = "AA"
    /\ name = None
    /\ discovered = << >>
    /\ pc = "loop"
    /\ exc = "none"
    /\ outlets = {"eeg"}
    /\ closed = {}
    /\ callbacks = [m \in Modalities |-> IF m = "eeg" THEN "eeg" ELSE None]
    /\ calls = <<"Muse", "connect", "start">>
    /\ output = <<"Connected.", "Streaming...">>
    /\ streaming = TRUE
    /\ connected = TRUE
    /\ now = 0
    /\ start_time = 0
    /\ hasLast \in BOOLEAN
    /\ pushes = IF hasLast THEN 1 ELSE 0
    /\ last_timestamp = 0
    /\ IdlePush
    /\ IdleList

\* a delivery by the session, at most one per second of the clock
SampleLoop ==
    /\ pushes < MaxLoopPush
    /\ hasLast => last_timestamp < now
    /\ \E m \in Modalities : Deliver(m)

NextLoop ==
    \/ LoopStale
    \/ LoopSilent
    \/ LoopSleep
    \/ LoopInterrupt
    \/ LoopError
    \/ Stop
    \/ Disconnect
    \/ ReportDisconnected
    \/ SampleLoop

SpecLoop == InitLoop /\ [][NextLoop]_vars

----------------------------------------------------------------------------
(* Properties of stream() *)

InCalls(c) == \E i \in 1..Len(calls) : calls[i] = c
Printed(line) == \E i \in 1..Len(output) : output[i] = line
IsTeardown(c) == c \in {"stop", "disconnect"}
TeardownCalls == SelectSeq(calls, IsTeardown)
LastLine == IF Len(output) = 0 THEN None ELSE output[Len(output)]

\* the supervisor loop has been entered (stream.py:318-323)
LoopEntered == Printed("Streaming...")

\* C1: once the supervisor loop has been entered, whatever ended the loop,
\* stream() has called stop() exactly once and then disconnect() exactly
\* once by the time it prints 'Disconnected.', returns or raises.
C1_TeardownAfterEveryLoopExit ==
    (LoopEntered /\ pc \in {"report", "done"})
        => TeardownCalls = <<"stop", "disconnect">>

\* C2: once connect() has succeeded, the session has been disconnected
\* exactly once whenever stream() has finished, by return or by exception.
C2_DisconnectedOnEveryExit ==
    (backend # "bluemuse" /\ Printed("Connected.") /\ pc = "done")
        => /\ ~connected
           /\ SelectSeq(calls, LAMBDA c : c = "disconnect") = <<"disconnect">>

\* C3: when stream() has finished, every outlet it opened has been closed.
C3_OutletsClosedAtExit ==
    pc = "done" => closed = outlets

\* C4: a request with every modality disabled is rejected before anything
\* is acquired: no discovery, no outlet, no session object, and no
\* connect/start/stop/disconnect, for every backend.
C4_RejectedBeforeAcquiring ==
    (eeg_disabled /\ ~ppg_enabled /\ ~acc_enabled /\ ~gyro_enabled)
        => /\ pc \in {"entry", "done"}
           /\ calls = << >>
           /\ outlets = {}
           /\ callbacks = NoCallbacks
           /\ ~connected
           /\ ~streaming
           /\ pushes = 0
           /\ (pc = "done" => output = <<"Stream initiation failed">>)

C4_Witness ==
    /\ eeg_disabled /\ ~ppg_enabled /\ ~acc_enabled /\ ~gyro_enabled
    /\ backend = "bluemuse"
    /\ pc = "done"
    /\ output = <<"Stream initiation failed">>

\* lines that tell the operator that the request failed
FailureLines ==
    {"Stream initiation failed", "No Muses found.", "Failed to connect."}

\* stream() returned right after discovery: no device was resolved
Unresolved ==
    /\ backend # "bluemuse"
    /\ calls = <<"find_muse">>
    /\ pc = "done"
    /\ exc = "none"

\* C5: when no address is given and discovery resolves no device, the
\* request ends as a failure that is reported, with no outlet opened, no
\* session constructed and no connect attempted.
C5_UnresolvedIsReported ==
    Unresolved
        => /\ outlets = {}
           /\ callbacks = NoCallbacks
           /\ ~connected
           /\ \E i \in 1..Len(output) : output[i] \in FailureLines

\* connect() returned False (it did not raise)
ConnectReturnedFalse ==
    /\ backend # "bluemuse"
    /\ InCalls("connect")
    /\ ~connected
    /\ ~InCalls("disconnect")
    /\ exc = "none"

\* C6: when connect() reports failure, start() is never called, the loop is
\* never entered, stop() and disconnect() are not called, nothing is pushed,
\* and the outcome reported is 'Failed to connect.'.
C6_FailedConnectNeverStreams ==
    ConnectReturnedFalse
        => /\ pc \in {"failed", "done"}
           /\ ~InCalls("start")
           /\ ~InCalls("stop")
           /\ ~LoopEntered
           /\ ~streaming
           /\ pushes = 0
           /\ (pc = "done" => LastLine = "Failed to connect.")

C6_Witness ==
    /\ ConnectReturnedFalse
    /\ pc = "done"
    /\ LastLine = "Failed to connect."
    /\ outlets = {"eeg", "ppg"}
    /\ calls = <<"find_muse", "Muse", "connect">>

\* the step by which the loop takes the stale-link exit
StaleExitStep ==
    pc = "loop" /\ pc' = "stop" /\ output' = Append(output, "Auto-disconnect")

\* the step by which the loop takes the silence-timeout exit
SilentExitStep ==
    /\ pc = "loop" /\ pc' = "stop"
    /\ output' = Append(output, "Max streaming time reached")

\* the step by which the loop sleeps and repeats
SleepStep == pc = "loop" /\ pc' = "loop" /\ now' # now

\* C7: while the loop runs, the last sample is never older than
\* AUTO_DISCONNECT_DELAY plus one sleep of the loop, and the stale-link exit
\* is taken only when it is older than AUTO_DISCONNECT_DELAY.
C7_StaleExitWithinOneInterval ==
    /\ []((pc = "loop" /\ hasLast)
            => now - last_timestamp <= AUTO_DISCONNECT_DELAY + SLEEP_SECONDS)
    /\ [][StaleExitStep
            => (hasLast /\ now - last_timestamp > AUTO_DISCONNECT_DELAY)]_vars

C7_Witness ==
    /\ pc = "stop"
    /\ LastLine = "Auto-disconnect"
    /\ pushes = 1
    /\ now - last_timestamp = AUTO_DISCONNECT_DELAY + SLEEP_SECONDS
    /\ now - start_time > AUTO_DISCONNECT_DELAY + SLEEP_SECONDS

\* C8: with no sample ever observed the loop never runs longer than 300
\* seconds plus one sleep, the silence exit is taken only when no sample was
\* ever observed and more than 300 seconds have passed since the loop
\* started, and when neither the stale-link condition nor the silence
\* condition holds the loop sleeps one interval and repeats.
C8_SilentExitAfter300 ==
    /\ []((pc = "loop" /\ ~hasLast)
            => now - start_time <= MAX_STREAMING_TIME + SLEEP_SECONDS)
    /\ [][SilentExitStep
            => (~hasLast /\ now - start_time > MAX_STREAMING_TIME)]_vars
    /\ [][SleepStep
            => /\ now' = now + SLEEP_SECONDS
               /\ ~(hasLast /\ now - last_timestamp > AUTO_DISCONNECT_DELAY)
               /\ ~(~hasLast /\ now - start_time > MAX_STREAMING_TIME)]_vars

C8_Witness ==
    /\ pc = "stop"
    /\ LastLine = "Max streaming time reached"
    /\ ~hasLast
    /\ pushes = 0
    /\ now - start_time = MAX_STREAMING_TIME + SLEEP_SECONDS

\* the session has reported disconnected: disconnect() was called on it
ReportedDisconnected == InCalls("disconnect") /\ ~connected

ResolveStep ==
    pc = "entry" /\ calls' = <<"find_muse">> /\ exc' = "none"

\* positions of the discovered devices whose name is exactly nm
NamedExactly(nm, muses) == {i \in 1..Len(muses) : muses[i].name = nm}

Requested(m) ==
    \/ m = "eeg" /\ ~eeg_disabled
    \/ m = "ppg" /\ ppg_enabled
    \/ m = "acc" /\ acc_enabled
    \/ m = "gyro" /\ gyro_enabled

\* C17: on an in-process backend, from the construction of the session on,
\* the outlets dict has a key for exactly the enabled modalities and the
\* session holds a callback for exactly those, each bound to the outlet of
\* its own modality; before that no callback exists, and no outlet exists
\* for a disabled modality at any time.
C17_ChannelsMatchModalities ==
    backend # "bluemuse"
        => /\ \A m \in outlets : Requested(m)
           /\ (InCalls("Muse") \/ InCalls("connect") \/ InCalls("start"))
                => /\ outlets = {m \in Modalities : Requested(m)}
                   /\ \A m \in Modalities :
                        callbacks[m] = IF Requested(m) THEN m ELSE None
           /\ ~InCalls("Muse") => callbacks = NoCallbacks

C17_Witness ==
    /\ backend # "bluemuse"
    /\ eeg_disabled /\ ~ppg_enabled /\ acc_enabled /\ gyro_enabled
    /\ outlets = {"acc", "gyro"}
    /\ callbacks["acc"] = "acc"
    /\ callbacks["eeg"] = None
    /\ pc = "connect"

\* a step by which the loop ends on its own decision (a break), not by an
\* interrupt or an error
BreakStep ==
    /\ pc = "loop" /\ pc' = "stop"
    /\ exc' = "none"
    /\ output' # Append(output, "Interrupted by user")

\* C18: once the session exposes a last-sample timestamp the 300 s exit is
\* never taken; while the last sample is at most AUTO_DISCONNECT_DELAY old
\* the loop does not end on its own decision, however long it has run; and
\* with a last-sample timestamp the only break is the stale-link one.
C18_NoCapOnceSamplesSeen ==
    /\ [][SilentExitStep => ~hasLast]_vars
    /\ [][(BreakStep /\ hasLast)
            => /\ StaleExitStep
               /\ now - last_timestamp > AUTO_DISCONNECT_DELAY]_vars

C18_Witness ==
    /\ pc = "loop"
    /\ hasLast
    /\ now - start_time > MAX_STREAMING_TIME + SLEEP_SECONDS
    /\ now - last_timestamp <= AUTO_DISCONNECT_DELAY
    /\ pushes >= 100

----------------------------------------------------------------------------
(* fixed_push(data, timestamps, outlet) *)

\* most columns / list elements in one batch
MaxCols == 3

NoTimestamp == "none"      \* push_sample(x) without a timestamp argument
WallClock == "time()"      \* the value of time() in the fallback path
Timestamps == {"t1", "t2"}

Kinds == {"matrix", "vector", "list", "other"}

\* one sample: a column of a 2-D array, a 1-D array, or a list element
Samples == {<<1>>, <<2>>, <<1, 2>>}

\* sequences of at most MaxCols samples of one common length
Batches ==
    UNION {[1..n -> Samples] : n \in 0..MaxCols}

Matrices ==
    {b \in Batches : \A i, j \in 1..Len(b) : Len(b[i]) = Len(b[j])}

TimestampSeqs ==
    UNION {[1..n -> Timestamps] : n \in 0..MaxCols}

\* push_sample calls are numbered 1, 2, ... within one router invocation;
\* the outlet raises on the calls whose number is in fp_fail: either one
\* call fails or every call from some number on fails
MaxCalls == 2 * MaxCols

FailPatterns ==
    {{}} \cup {{k} : k \in 1..MaxCalls} \cup {k..MaxCalls : k \in 1..MaxCalls}

\* PrimaryTimestamp pairing every column with timestamps[0]
PrimaryTimestamp_first(ii, timestamps) ==
    IF ii < Len(timestamps) THEN timestamps[1] ELSE NoTimestamp

\* PrimaryTimestamp reusing the last timestamp once the sequence runs out
PrimaryTimestamp_reuse(ii, timestamps) ==
    IF Len(timestamps) > 0
    THEN timestamps[IF ii < Len(timestamps) THEN ii + 1 ELSE Len(timestamps)]
    ELSE NoTimestamp

\* stream.py:170-173 and 183-186: the timestamp argument of push number ii
\* (ii counts from 0 as in the source)
PrimaryTimestamp(ii, timestamps) ==
    IF ii < Len(timestamps) THEN timestamps[ii + 1] ELSE NoTimestamp

\* stream.py:176-179 and 189-192
SingleTimestamp(timestamps) ==
    IF Len(timestamps) > 0 THEN timestamps[1] ELSE NoTimestamp

\* stream.py:166-192: the pushes the try block makes, in order
PrimaryPlan(kind, data, timestamps) ==
    IF kind \in {"matrix", "list"}
    THEN [k \in 1..Len(data) |->
            [col |-> k - 1, sample |-> data[k],
             ts |-> PrimaryTimestamp(k - 1, timestamps)]]
    ELSE <<[col |-> 0, sample |-> data, ts |-> SingleTimestamp(timestamps)]>>

\* stream.py:198-202: the pushes the except block makes, in order
FallbackPlan(kind, data, timestamps) ==
    IF kind = "matrix"
    THEN [k \in 1..Len(data) |->
            [col |-> k - 1, sample |-> data[k],
             ts |-> IF k - 1 < Len(timestamps) THEN timestamps[k]
                    ELSE WallClock]]
    ELSE <<[col |-> 0, sample |-> data,
            ts |-> IF Len(timestamps) > 0 THEN timestamps[1] ELSE WallClock]>>

\* stream.py:203: the bare except around the fallback catches the failure
FallbackCatches == TRUE

idleStream ==
    /\ eeg_disabled = FALSE
    /\ ppg_enabled = FALSE
    /\ acc_enabled = FALSE
    /\ gyro_enabled = FALSE
    /\ backend = "auto"
    /\ address = None
    /\ name = None
    /\ discovered = << >>
    /\ pc = "idle"
    /\ exc = "none"
    /\ outlets = {}
    /\ closed = {}
    /\ callbacks = NoCallbacks
    /\ calls = << >>
    /\ output = << >>
    /\ streaming = FALSE
    /\ connected = FALSE
    /\ pushes = 0
    /\ now = 0
    /\ start_time = 0
    /\ hasLast = FALSE
    /\ last_timestamp = 0

InitPush ==
    /\ idleStream
    /\ IdleList
    /\ fp_kind \in Kinds
    /\ fp_data \in (IF fp_kind = "matrix" THEN Matrices
                    ELSE IF fp_kind = "list" THEN Batches
                    ELSE Samples)
    /\ fp_ts \in TimestampSeqs
    /\ fp_fail \in FailPatterns
    /\ fp_pc = "try"
    /\ fp_i = 0
    /\ fp_ncall = 0
    /\ fp_log = << >>
    /\ fp_escaped = FALSE

\* the record of one push_sample call
Pushed(item, ok) ==
    [col |-> item.col, sample |-> item.sample, ts |-> item.ts, ok |-> ok]

\* stream.py:164-192, one push_sample call of the try block
PushPrimary ==
    /\ fp_pc = "try"
    /\ LET plan == PrimaryPlan(fp_kind, fp_data, fp_ts)
           ok == (fp_ncall + 1) \notin fp_fail
       IN /\ fp_i < Len(plan)
          /\ fp_ncall' = fp_ncall + 1
          /\ fp_log' = Append(fp_log, Pushed(plan[fp_i + 1], ok))
          /\ IF ok
             THEN /\ fp_i' = fp_i + 1
                  /\ UNCHANGED fp_pc
             ELSE \* stream.py:194-197
                  /\ fp_i' = 0
                  /\ fp_pc' = "except"
    /\ UNCHANGED <<fp_kind, fp_data, fp_ts, fp_fail, fp_escaped>>
    /\ UNCHANGED <<streamVars, listVars>>

\* stream.py:164-192, the try block completes
ReturnPrimary ==
    /\ fp_pc = "try"
    /\ fp_i = Len(PrimaryPlan(fp_kind, fp_data, fp_ts))
    /\ fp_pc' = "done"
    /\ UNCHANGED <<fp_kind, fp_data, fp_ts, fp_fail, fp_i, fp_ncall, fp_log,
                   fp_escaped>>
    /\ UNCHANGED <<streamVars, listVars>>

\* stream.py:197-204, one push_sample call of the except block
PushFallback ==
    /\ fp_pc = "except"
    /\ LET plan == FallbackPlan(fp_kind, fp_data, fp_ts)
           ok == (fp_ncall + 1) \notin fp_fail
       IN /\ fp_i < Len(plan)
          /\ fp_ncall' = fp_ncall + 1
          /\ fp_log' = Append(fp_log, Pushed(plan[fp_i + 1], ok))
          /\ IF ok
             THEN /\ fp_i' = fp_i + 1
                  /\ UNCHANGED <<fp_pc, fp_escaped>>
             ELSE /\ fp_i' = 0
                  /\ fp_pc' = "done"
                  /\ fp_escaped' = ~FallbackCatches
    /\ UNCHANGED <<fp_kind, fp_data, fp_ts, fp_fail>>
    /\ UNCHANGED <<streamVars, listVars>>

\* stream.py:197-204, the except block completes
ReturnFallback ==
    /\ fp_pc = "except"
    /\ fp_i = Len(FallbackPlan(fp_kind, fp_data, fp_ts))
    /\ fp_pc' = "done"
    /\ UNCHANGED <<fp_kind, fp_data, fp_ts, fp_fail, fp_i, fp_ncall, fp_log,
                   fp_escaped>>
    /\ UNCHANGED <<streamVars, listVars>>

NextPush ==
    \/ PushPrimary
    \/ ReturnPrimary
    \/ PushFallback
    \/ ReturnFallback

SpecPush == InitPush /\ [][NextPush]_vars

----------------------------------------------------------------------------
(* Properties of fixed_push() *)

\* every push_sample call of the invocation returned normally
AllPushesReturned == \A i \in 1..Len(fp_log) : fp_log[i].ok

\* the invocation made one push per column, in column order, column i with
\* the timestamp argument PrimaryTimestamp gives it
PushedColumnWise(expected(_)) ==
    /\ Len(fp_log) = Len(fp_data)
    /\ \A i \in 1..Len(fp_log) :
         /\ fp_log[i].col = i - 1
         /\ fp_log[i].sample = fp_data[i]
         /\ fp_log[i].ts = expected(i)

FailedCalls == {i \in 1..Len(fp_log) : ~fp_log[i].ok}

\* C11: a failure while routing never leaves the router, and after the first
\* failing push the router makes at most one more push: the first
\* column/sample with a wall-clock timestamp.
C11_OneDegradedFallbackPush ==
    /\ ~fp_escaped
    /\ \A f \in FailedCalls :
         (\A g \in FailedCalls : f <= g)
            => /\ Len(fp_log) <= f + 1
               /\ \A i \in (f + 1)..Len(fp_log) :
                    fp_log[i].col = 0 /\ fp_log[i].ts = WallClock

\* C19: every column of a 2-D batch is pushed successfully at most once,
\* also when a push fails part-way and the fallback runs.
C19_EachColumnPushedAtMostOnce ==
    fp_kind = "matrix"
        => \A i, j \in 1..Len(fp_log) :
             (fp_log[i].ok /\ fp_log[j].ok /\ fp_log[i].col = fp_log[j].col)
                => i = j

----------------------------------------------------------------------------
(* list_muses(backend) and _list_muses_bluetoothctl() *)

\* most devices in one scan result, most lines in one bluetoothctl output
MaxDevices == 2
MaxLines == 2

\* text is a sequence of characters
MuseStr == <<"M", "u", "s", "e">>

\* pat in s
Contains(s, pat) ==
    \E i \in 1..(Len(s) - Len(pat) + 1) : SubSeq(s, i, i + Len(pat) - 1) = pat

\* lines of the output of 'bluetoothctl devices'
LineMuse ==
    <<"D", "e", "v", "i", "c", "e", " ", "0", "0", ":", "5", "5", ":", "D", "A", ":", "B", "0", ":", "0", "1", ":", "0", "2", " ", "M", "u", "s", "e", "-", "1", "A">>

LineOther ==
    <<"D", "e", "v", "i", "c", "e", " ", "1", "1", ":", "2", "2", ":", "3", "3", ":", "4", "4", ":", "5", "5", ":", "6", "6", " ", "F", "i", "t", "b", "i", "t">>

LineLower ==
    <<"D", "e", "v", "i", "c", "e", " ", "0", "0", "-", "5", "5", "-", "d", "a", "-", "b", "0", "-", "0", "1", "-", "0", "3", " ", "M", "u", "s", "e", "S", "-", "0", "B">>

LineNoAddress ==
    <<"M", "u", "s", "e", " ", "p", "a", "i", "r", "i", "n", "g", " ", "a", "g", "e", "n", "t">>

LineTwoWords ==
    <<"[", "N", "E", "W", "]", " ", "D", "e", "v", "i", "c", "e", " ", "0", "0", ":", "5", "5", ":", "D", "A", ":", "B", "0", ":", "0", "1", ":", "0", "4", " ", "M", "y", " ", "M", "u", "s", "e">>

LineEmpty == << >>

ToolLines ==
    {LineMuse, LineOther, LineLower, LineNoAddress, LineTwoWords, LineEmpty}

\* result.stdout.split('\n'), or [] when the command failed (stream.py:113-125)
ToolOutputs == UNION {[1..n -> ToolLines] : n \in 0..MaxLines}

HexDigits ==
    {"0", "1", "2", "3", "4", "5", "6", "7", "8", "9",
     "A", "B", "C", "D", "E", "F", "a", "b", "c", "d", "e", "f"}

\* re.search(r'Muse[^\s]*', line): the leftmost 'Muse' with the non-blank
\* characters that follow it; the empty text when there is no match
NameMatch(line) ==
    IF ~Contains(line, MuseStr) THEN << >>
    ELSE LET i == CHOOSE k \in 1..(Len(line) - 3) :
                    /\ SubSeq(line, k, k + 3) = MuseStr
                    /\ \A h \in 1..(k - 1) : SubSeq(line, h, h + 3) # MuseStr
             j == CHOOSE e \in (i + 3)..Len(line) :
                    /\ \A h \in i..e : line[h] # " "
                    /\ (e = Len(line) \/ line[e + 1] = " ")
         IN SubSeq(line, i, j)

\* ([0-9A-F]{2}[:-]){5}[0-9A-F]{2} with re.IGNORECASE matches at position k
MacAt(line, k) ==
    /\ k + 16 <= Len(line)
    /\ \A g \in 0..5 : /\ line[k + 3 * g] \in HexDigits
                       /\ line[k + 3 * g + 1] \in HexDigits
    /\ \A g \in 0..4 : line[k + 3 * g + 2] \in {":", "-"}

\* re.search of the address pattern; the empty text when there is no match
AddrMatch(line) ==
    IF \E k \in 1..Len(line) : MacAt(line, k)
    THEN LET i == CHOOSE k \in 1..Len(line) :
                    /\ MacAt(line, k)
                    /\ \A h \in 1..(k - 1) : ~MacAt(line, h)
         IN SubSeq(line, i, i + 16)
    ELSE << >>

\* a device dict; named = FALSE stands for name None
Device(named, nm, addr) == [named |-> named, name |-> nm, address |-> addr]

\* stream.py:130-140: the devices one output line contributes
ParseLine(line) ==
    IF Contains(line, MuseStr)
          /\ NameMatch(line) # << >> /\ AddrMatch(line) # << >>
    THEN <<Device(TRUE, NameMatch(line), AddrMatch(line))>>
    ELSE << >>

\* stream.py:128-144
RECURSIVE ParseLines(_)
ParseLines(ls) ==
    IF ls = << >> THEN << >>
    ELSE ParseLine(Head(ls)) \o ParseLines(Tail(ls))

\* devices an adapter scan can report
ScanDevices ==
    {Device(TRUE, <<"M", "u", "s", "e", "-", "1", "A">>, <<"0", "0", ":", "5", "5", ":", "D", "A", ":", "B", "0", ":", "0", "1", ":", "0", "2">>),
     Device(TRUE, <<"F", "i", "t", "b", "i", "t">>, <<"1", "1", ":", "2", "2", ":", "3", "3", ":", "4", "4", ":", "5", "5", ":", "6", "6">>),
     Device(TRUE, <<"M", "y", "M", "u", "s", "e">>, <<"0", "0", ":", "5", "5", ":", "D", "A", ":", "B", "0", ":", "0", "1", ":", "0", "5">>),
     Device(TRUE, << >>, <<"1", "1", ":", "2", "2", ":", "3", "3", ":", "4", "4", ":", "5", "5", ":", "7", "7">>),
     Device(FALSE, << >>, <<"1", "1", ":", "2", "2", ":", "3", "3", ":", "4", "4", ":", "5", "5", ":", "8", "8">>)}

ScanResults == UNION {[1..n -> ScanDevices] : n \in 0..MaxDevices}

\* d['name'] is neither None nor ''
Truthy(d) == d.named /\ Len(d.name) > 0

\* FilterMuses keeping every device that has a name
FilterMuses_named(devices) ==
    SelectSeq(devices, Truthy)

\* stream.py:64
FilterMuses(devices) ==
    SelectSeq(devices, LAMBDA d : Truthy(d) /\ Contains(d.name, MuseStr))

ListBackends == {"auto", "gatt", "bleak", "bgapi", "bluemuse"}

\* helper.resolve_backend: an explicit token passes through, 'auto' becomes
\* one concrete backend
ResolveBackend(b) ==
    IF b = "auto" THEN {"gatt", "bleak", "bgapi", "bluemuse"} ELSE {b}

\* UsesToolFirst for any backend token
UsesToolFirst_any == lm_tool

\* stream.py:33
UsesToolFirst == lm_backend = "auto" /\ lm_tool

\* FallsBack for every backend
FallsBack_any(b) == TRUE

\* stream.py:57
FallsBack(b) == b = "gatt"

\* what an adapter call does: returns, raises pygatt's BLEError, or raises
\* something else
AdapterOutcomes == {"ok", "BLEError", "other"}

InitList ==
    /\ idleStream
    /\ IdlePush
    /\ lm_requested \in ListBackends
    /\ lm_backend = lm_requested
    /\ lm_tool \in BOOLEAN
    /\ lm_pc = "entry"
    /\ lm_log = << >>
    /\ lm_err = "none"
    /\ lm_started = FALSE
    /\ lm_stopped = FALSE
    /\ lm_devices = << >>
    /\ lm_muses = << >>
    /\ lm_ret = "pending"

\* stream.py:70-147, the whole of _list_muses_bluetoothctl and the return of
\* its result
Bluetoothctl ==
    /\ lm_log' = Append(lm_log, "bluetoothctl")
    /\ \E ls \in ToolOutputs : lm_muses' = ParseLines(ls)
    /\ lm_ret' = "list"
    /\ lm_pc' = "done"

\* stream.py:56-62, the except clause, entered with exception e
Handle(e) ==
    /\ lm_err' = e
    /\ IF e = "BLEError" /\ FallsBack(lm_backend)
       THEN /\ lm_pc' = "fallback"
            /\ UNCHANGED lm_ret
       ELSE /\ lm_pc' = "done"
            /\ lm_ret' = "raised"

\* stream.py:33-35
ListByTool ==
    /\ lm_pc = "entry"
    /\ UsesToolFirst
    /\ Bluetoothctl
    /\ UNCHANGED <<lm_requested, lm_backend, lm_tool, lm_err, lm_started,
                   lm_stopped, lm_devices>>
    /\ UNCHANGED <<streamVars, pushVars>>

\* stream.py:37
ListResolve ==
    /\ lm_pc = "entry"
    /\ ~UsesToolFirst
    /\ \E b \in ResolveBackend(lm_backend) : lm_backend' = b
    /\ lm_log' = Append(lm_log, "resolve_backend")
    /\ lm_pc' = "construct"
    /\ UNCHANGED <<lm_requested, lm_tool, lm_err, lm_started, lm_stopped,
                   lm_devices, lm_muses, lm_ret>>
    /\ UNCHANGED <<streamVars, pushVars>>

\* stream.py:39-41, 46-49
ListConstruct ==
    /\ lm_pc = "construct"
    /\ lm_backend \in {"gatt", "bleak", "bgapi"}
    /\ lm_log' = Append(lm_log, "adapter")
    /\ lm_pc' = "start"
    /\ UNCHANGED <<lm_requested, lm_backend, lm_tool, lm_err, lm_started,
                   lm_stopped, lm_devices, lm_muses, lm_ret>>
    /\ UNCHANGED <<streamVars, pushVars>>

\* stream.py:42-45
ListBlueMuse ==
    /\ lm_pc = "construct"
    /\ lm_backend = "bluemuse"
    /\ lm_log' = Append(lm_log, "bluemuse")
    /\ lm_ret' = "None"
    /\ lm_pc' = "done"
    /\ UNCHANGED <<lm_requested, lm_backend, lm_tool, lm_err, lm_started,
                   lm_stopped, lm_devices, lm_muses>>
    /\ UNCHANGED <<streamVars, pushVars>>

\* stream.py:51-52, 56-62
ListStart ==
    /\ lm_pc = "start"
    /\ lm_log' = Append(lm_log, "start")
    /\ \E r \in AdapterOutcomes :
         IF r = "ok"
         THEN /\ lm_started' = TRUE
              /\ lm_pc' = "scan"
              /\ UNCHANGED <<lm_err, lm_ret>>
         ELSE /\ Handle(r)
              /\ UNCHANGED lm_started
    /\ UNCHANGED <<lm_requested, lm_backend, lm_tool, lm_stopped, lm_devices,
                   lm_muses>>
    /\ UNCHANGED <<streamVars, pushVars>>

\* stream.py:53-54, 56-62
ListScan ==
    /\ lm_pc = "scan"
    /\ lm_log' = Append(lm_log, "scan")
    /\ \E r \in AdapterOutcomes :
         IF r = "ok"
         THEN /\ \E devices \in ScanResults : lm_devices' = devices
              /\ lm_pc' = "stop"
              /\ UNCHANGED <<lm_err, lm_ret>>
         ELSE /\ Handle(r)
              /\ UNCHANGED lm_devices
    /\ UNCHANGED <<lm_requested, lm_backend, lm_tool, lm_started, lm_stopped,
                   lm_muses>>
    /\ UNCHANGED <<streamVars, pushVars>>

\* stream.py:55, 56-62
ListStop ==
    /\ lm_pc = "stop"
    /\ lm_log' = Append(lm_log, "stop")
    /\ \E r \in AdapterOutcomes :
         IF r = "ok"
         THEN /\ lm_stopped' = TRUE
              /\ lm_pc' = "filter"
              /\ UNCHANGED <<lm_err, lm_ret>>
         ELSE /\ Handle(r)
              /\ UNCHANGED lm_stopped
    /\ UNCHANGED <<lm_requested, lm_backend, lm_tool, lm_started, lm_devices,
                   lm_muses>>
    /\ UNCHANGED <<streamVars, pushVars>>

\* stream.py:58-60
ListFallback ==
    /\ lm_pc = "fallback"
    /\ Bluetoothctl
    /\ UNCHANGED <<lm_requested, lm_backend, lm_tool, lm_err, lm_started,
                   lm_stopped, lm_devices>>
    /\ UNCHANGED <<streamVars, pushVars>>

\* stream.py:64-67
ListFilter ==
    /\ lm_pc = "filter"
    /\ lm_muses' = FilterMuses(lm_devices)
    /\ lm_ret' = "list"
    /\ lm_pc' = "done"
    /\ UNCHANGED <<lm_requested, lm_backend, lm_tool, lm_log, lm_err,
                   lm_started, lm_stopped, lm_devices>>
    /\ UNCHANGED <<streamVars, pushVars>>

NextList ==
    \/ ListByTool
    \/ ListResolve
    \/ ListConstruct
    \/ ListBlueMuse
    \/ ListStart
    \/ ListScan
    \/ ListStop
    \/ ListFallback
    \/ ListFilter

SpecList == InitList /\ [][NextList]_vars

----------------------------------------------------------------------------
(* Properties of list_muses() *)

LogHas(e) == \E i \in 1..Len(lm_log) : lm_log[i] = e

LogCount(e) == Cardinality({i \in 1..Len(lm_log) : lm_log[i] = e})

ListedByTool == LogHas("bluetoothctl")

\* C13: every device list_muses returns, from an adapter scan or from
\* bluetoothctl, has a name that contains 'Muse'; a scanned device whose name
\* is None or empty and an output line without the product name or without a
\* MAC address contribute no entry (so every bluetoothctl entry carries a
\* 17-character address), and neither makes list_muses raise: the filter and
\* the parser always end in a returned list.
C13_ReturnedNamesContainMuse ==
    /\ lm_ret = "list" =>
         \A i \in 1..Len(lm_muses) :
            /\ lm_muses[i].named
            /\ Contains(lm_muses[i].name, MuseStr)
            /\ ListedByTool => Len(lm_muses[i].address) = 17
    /\ (lm_pc = "done" /\ (lm_stopped \/ ListedByTool)) => lm_ret = "list"

\* a scan that reported a device without a usable name next to a Muse
C13_Witness ==
    /\ lm_ret = "list"
    /\ lm_stopped
    /\ \E i \in 1..Len(lm_devices) : ~Truthy(lm_devices[i])
    /\ Len(lm_muses) = 1

\* C14: a BLEError from the adapter with the resolved backend 'gatt' makes
\* list_muses run the bluetoothctl enumeration exactly once and return its
\* list; with 'bleak' or 'bgapi' the same error is raised to the caller and
\* bluetoothctl is never run.
C14_FallbackOnlyForGatt ==
    /\ (lm_err = "BLEError" /\ lm_backend = "gatt") =>
         /\ lm_pc \in {"fallback", "done"}
         /\ lm_ret # "raised"
         /\ lm_pc = "done" =>
              /\ lm_ret = "list"
              /\ LogCount("bluetoothctl") = 1
              /\ lm_log[Len(lm_log)] = "bluetoothctl"
    /\ (lm_err = "BLEError" /\ lm_backend \in {"bleak", "bgapi"}) =>
         /\ lm_pc = "done"
         /\ lm_ret = "raised"
         /\ ~ListedByTool

\* the scan of a gatt adapter raised BLEError and bluetoothctl found a Muse
C14_Witness ==
    /\ lm_err = "BLEError"
    /\ lm_backend = "gatt"
    /\ LogHas("scan")
    /\ lm_pc = "done"
    /\ lm_ret = "list"
    /\ Len(lm_muses) > 0

\* C15: called with 'auto' where bluetoothctl is found, list_muses does
\* nothing but the bluetoothctl enumeration: resolve_backend is not called
\* and no adapter is constructed, started or scanned.  Called with an explicit
\* token it always begins with resolve_backend, and reaches bluetoothctl only
\* as the fallback of a gatt adapter's BLEError, whether or not the tool is
\* found.
C15_AutoPrefersBluetoothctl ==
    /\ (lm_requested = "auto" /\ lm_tool /\ lm_pc # "entry") =>
         /\ lm_log = <<"bluetoothctl">>
         /\ lm_pc = "done"
         /\ lm_ret = "list"
    /\ (lm_requested # "auto" /\ lm_pc # "entry") =>
         /\ lm_log[1] = "resolve_backend"
         /\ lm_backend = lm_requested
         /\ ListedByTool => (lm_err = "BLEError" /\ lm_backend = "gatt")

\* 'auto' with the tool present has returned what bluetoothctl listed
C15_Witness ==
    /\ lm_requested = "auto"
    /\ lm_tool
    /\ lm_pc = "done"
    /\ Len(lm_muses) > 0

\* C20: when list_muses has returned or raised, an adapter it started has
\* been stopped.
C20_StartedAdapterIsStopped ==
    lm_pc = "done" => (lm_started => lm_stopped)

====
